---- MODULE Spec2Model ----
(***************************************************************************)
(* Model of lodash-rs.  The method-chaining system (src/src/chain/mod.rs):  *)
(* the synchronous Chain<T> and the asynchronous AsyncChain<T>, with T =    *)
(* i32.  A chain owns a copy of the caller's slice and an ordered list of   *)
(* deferred operations; the terminal call consumes the chain and applies    *)
(* the operations (specification Spec).  The free functions: the async      *)
(* helpers of utils/async_support.rs and collection/async_support.rs        *)
(* (ExecSpec), the rayon wrappers of extensions/parallel.rs (ParSpec), and  *)
(* element access and sampling of collection/mod.rs and                     *)
(* collection/operation.rs (CollSpec), and grouping and sorting of          *)
(* collection/query.rs and collection/transform.rs (TransformSpec).  User   *)
(* closures are drawn from a small set of named closures taken from the     *)
(* repository's tests and doc examples.                                     *)
(***************************************************************************)
EXTENDS Integers, Sequences, FiniteSets, TLC

\* ------------------------------------------------------------------ bounds
MaxLen == 2        \* longest enumerated source slice
MaxOps == 2        \* most builder calls made on one enumerated chain
MaxCount == 2      \* enumerated take/skip counts are 0..MaxCount

\* elements of the enumerated source slices
Elems == {1, 2}

\* ------------------------------------------------------- inputs of the tests
\* data of test_chain_operation / the chain doc example, and of
\* test_chain_complex / test_chain_async_complex
TestSources == { <<1, 2, 3, 4, 5>>, <<1, 2, 3, 4, 5, 6, 7, 8, 9, 10>> }

RECURSIVE SeqsUpTo(_, _)
SeqsUpTo(S, n) ==
    IF n = 0 THEN { <<>> }
    ELSE LET shorter == SeqsUpTo(S, n - 1)
         IN  shorter \cup { Append(s, x) : s \in shorter, x \in S }

Sources == SeqsUpTo(Elems, MaxLen) \cup TestSources

\* ------------------------------------------------------------- i32 arithmetic
Abs(a) == IF a < 0 THEN 0 - a ELSE a

\* Rust's `/` on i32 truncates toward zero
i32_div(a, b) ==
    LET q == Abs(a) \div Abs(b)
    IN  IF (a < 0) = (b < 0) THEN q ELSE 0 - q

\* Rust's `%` on i32: remainder with the sign of the dividend
i32_rem(a, b) == a - b * i32_div(a, b)

\* ------------------------------------------------------------- user closures
\* mappers: Fn(&T) -> T
Mappers == { "double", "triple", "recip" }
\* predicates: Fn(&T) -> bool
Predicates == { "even", "gt5" }

\* does the call mapper(&x) panic?  `12 / (x - 2)` divides by zero at x = 2
mapper_panics(mapper, x) == mapper = "recip" /\ x = 2

\* the value mapper(&x) returns when it does not panic
mapper_call(mapper, x) ==
    CASE mapper = "double" -> x * 2
      [] mapper = "triple" -> x * 3
      [] mapper = "recip"  -> IF x = 2 THEN 0 ELSE i32_div(12, x - 2)

\* the value predicate(&x) returns
predicate_call(predicate, x) ==
    CASE predicate = "even" -> i32_rem(x, 2) = 0
      [] predicate = "gt5"  -> x > 5

\* ------------------------------------------------------------- Operation<T>
Map(mapper)       == [tag |-> "Map", f |-> mapper, n |-> 0]
Filter(predicate) == [tag |-> "Filter", f |-> predicate, n |-> 0]
Take(n)           == [tag |-> "Take", f |-> "", n |-> n]
Skip(n)           == [tag |-> "Skip", f |-> "", n |-> n]
Reverse           == [tag |-> "Reverse", f |-> "", n |-> 0]

\* AsyncOperation<T>: MapAsync / FilterAsync hold a closure returning a future;
\* its Take / Skip / Reverse variants have the shape of Operation's
MapAsync(mapper)       == [tag |-> "MapAsync", f |-> mapper, n |-> 0]
FilterAsync(predicate) == [tag |-> "FilterAsync", f |-> predicate, n |-> 0]

\* the operations the repository's tests and doc examples append, and the
\* length of the longest chain they build (test_chain_complex)
TestOperations ==
    { Map("double"), Map("triple"), Filter("even"), Filter("gt5"),
      Take(3), Skip(2), Reverse }
TestAsyncOperations ==
    { MapAsync("double"), MapAsync("triple"), FilterAsync("even"), FilterAsync("gt5"),
      Take(3), Skip(2), Reverse }
TestChainLen == 3

\* one invocation of a user closure: by which operation (1-based position in
\* the operation list) and on which element
Call(i, x) == [op |-> i, arg |-> x]

\* outcome of one step of the evaluation loop
Outcome(out, calls, panicked) == [out |-> out, calls |-> calls, panicked |-> panicked]

\* ------------------------------------------------- iterator adaptors (sync)
\* map_collect collecting in reverse
RECURSIVE map_collect_prepend(_, _, _, _)
map_collect_prepend(rest, mapper, i, acc) ==
    IF rest = <<>> THEN acc
    ELSE LET x == Head(rest)
             c == Append(acc.calls, Call(i, x))
         IN  IF mapper_panics(mapper, x)
             THEN Outcome(acc.out, c, TRUE)
             ELSE map_collect_prepend(Tail(rest), mapper, i,
                      Outcome(<< mapper_call(mapper, x) >> \o acc.out, c, FALSE))

\* map_collect catching the panic of the mapper and skipping the element
RECURSIVE map_collect_catch(_, _, _, _)
map_collect_catch(rest, mapper, i, acc) ==
    IF rest = <<>> THEN acc
    ELSE LET x == Head(rest)
             c == Append(acc.calls, Call(i, x))
         IN  map_collect_catch(Tail(rest), mapper, i,
                 Outcome(IF mapper_panics(mapper, x) THEN acc.out
                         ELSE Append(acc.out, mapper_call(mapper, x)),
                         c, FALSE))

\* result.into_iter().map(|x| mapper(&x)).collect()
RECURSIVE map_collect(_, _, _, _)
map_collect(rest, mapper, i, acc) ==
    IF rest = <<>> THEN acc
    ELSE LET x == Head(rest)
             c == Append(acc.calls, Call(i, x))
         IN  IF mapper_panics(mapper, x)
             THEN Outcome(acc.out, c, TRUE)
             ELSE map_collect(Tail(rest), mapper, i,
                              Outcome(Append(acc.out, mapper_call(mapper, x)), c, FALSE))

\* filter_collect dropping an element equal to one already kept
RECURSIVE filter_collect_dedup(_, _, _, _)
filter_collect_dedup(rest, predicate, i, acc) ==
    IF rest = <<>> THEN acc
    ELSE LET x == Head(rest)
             c == Append(acc.calls, Call(i, x))
             seen == \E k \in 1 .. Len(acc.out) : acc.out[k] = x
         IN  filter_collect_dedup(Tail(rest), predicate, i,
                 Outcome(IF predicate_call(predicate, x) /\ ~seen
                         THEN Append(acc.out, x) ELSE acc.out,
                         c, FALSE))

\* result.into_iter().filter(|x| predicate(x)).collect()
RECURSIVE filter_collect(_, _, _, _)
filter_collect(rest, predicate, i, acc) ==
    IF rest = <<>> THEN acc
    ELSE LET x == Head(rest)
             c == Append(acc.calls, Call(i, x))
         IN  filter_collect(Tail(rest), predicate, i,
                 Outcome(IF predicate_call(predicate, x) THEN Append(acc.out, x) ELSE acc.out,
                         c, FALSE))

\* take_collect testing the count after yielding: one element too many
RECURSIVE take_collect_inclusive(_, _, _)
take_collect_inclusive(rest, n, out) ==
    IF rest = <<>> THEN out
    ELSE IF n = 0 THEN Append(out, Head(rest))
    ELSE take_collect_inclusive(Tail(rest), n - 1, Append(out, Head(rest)))

\* result.into_iter().take(n).collect(): yield while the count is not used up
RECURSIVE take_collect(_, _, _)
take_collect(rest, n, out) ==
    IF n = 0 \/ rest = <<>> THEN out
    ELSE take_collect(Tail(rest), n - 1, Append(out, Head(rest)))

\* result.into_iter().skip(n).collect(): drop while the count is not used up
RECURSIVE skip_collect(_, _)
skip_collect(rest, n) ==
    IF n = 0 \/ rest = <<>> THEN rest
    ELSE skip_collect(Tail(rest), n - 1)

\* slice_reverse swapping over the whole length instead of half of it
RECURSIVE slice_reverse_full(_, _)
slice_reverse_full(s, i) ==
    LET j == Len(s) + 1 - i
    IN  IF i > Len(s) THEN s
        ELSE slice_reverse_full([s EXCEPT ![i] = s[j], ![j] = s[i]], i + 1)

\* result.reverse(): in-place, swapping element i with element len-1-i for
\* i in 0 .. len/2 (1-based here)
RECURSIVE slice_reverse(_, _)
slice_reverse(s, i) ==
    LET j == Len(s) + 1 - i
    IN  IF i >= j THEN s
        ELSE slice_reverse([s EXCEPT ![i] = s[j], ![j] = s[i]], i + 1)

\* ------------------------------------------------------------------ state
VARIABLES
    source,        \* the caller's slice, borrowed by chain() / chain_async()
    kind,          \* "sync": a Chain<T>; "async": an AsyncChain<T>
    state,         \* "Building": the chain value is owned by the caller;
                   \* "Consumed": it was moved into the terminal call
    data,          \* Chain::data / AsyncChain::data
    operations,    \* Chain::operations / AsyncChain::operations
    pc,            \* position of the terminal call: "build" (not called),
                   \* "await" (suspended on an element future), "done"
                   \* (returned), "panicked" (unwound)
    result,        \* the local `result` of value() / await
    opIdx,         \* await: position of `for operation in self.operations`
    iter,          \* await: items `for item in result` has not yet taken
    new_result,    \* await: the local `new_result` of a map/filter step
    pending,       \* await: element futures created and not yet completed
    calls,         \* every invocation of a user closure so far, in order
    returned,      \* <<v>> once the terminal call returned v, else <<>>
    terminalCalls  \* number of terminal calls made on the chain

chainVars == << source, kind, state, data, operations, pc, result, opIdx, iter,
                new_result, pending, calls, returned, terminalCalls >>

\* One call of a free function of the library (utils/async_support.rs,
\* collection/async_support.rs, extensions/parallel.rs, collection/mod.rs,
\* collection/operation.rs): its arguments, its position and what it returned.
VARIABLES
    fn,            \* the function called, "" while none is
    items,         \* its slice argument (`items` / `collection`)
    closure,       \* its closure argument (`operation` / `iteratee` / `predicate`)
    count,         \* its scalar argument (`concurrency` / `index` / `n` /
                   \* `initial` / `ascending`)
    invoked,       \* number of items the closure has been called on
    work,          \* units running concurrently: the futures handed to
                   \* join_all, or the pieces handed to the worker threads
    finished,      \* positions in `work` of the units completed, in
                   \* completion order
    results,       \* the local `results` accumulated so far
    outcome,       \* what the call returned: a record, [tag |-> "none"] before
    callPc         \* position of the call: "idle", "joining", "awaiting",
                   \* "returned", "panicked"

callVars == << fn, items, closure, count, invoked, work, finished, results,
               outcome, callPc >>

vars == << chainVars, callVars >>

NoOutcome == [tag |-> "none"]

\* no free function is being called
NoCall ==
    /\ fn = ""
    /\ items = <<>>
    /\ closure = ""
    /\ count = 0
    /\ invoked = 0
    /\ work = <<>>
    /\ finished = <<>>
    /\ results = <<>>
    /\ outcome = NoOutcome
    /\ callPc = "idle"

awaitVars == << opIdx, iter, new_result, pending >>

\* Chain::new / AsyncChain::new: data = data.to_vec(), operations = Vec::new()
Init ==
    /\ source \in Sources
    /\ kind \in {"sync", "async"}
    /\ state = "Building"
    /\ data = source
    /\ operations = <<>>
    /\ pc = "build"
    /\ result = <<>>
    /\ opIdx = 0
    /\ iter = <<>>
    /\ new_result = <<>>
    /\ pending = <<>>
    /\ calls = <<>>
    /\ returned = <<>>
    /\ terminalCalls = 0
    /\ NoCall

\* the builder calls the enumeration makes: chains over the tests' data are
\* built from the tests' operations, every other chain from any operation,
\* up to MaxOps of them
MayAppend(operation) ==
    IF data \in TestSources
    THEN /\ Len(operations) < TestChainLen
         /\ operation \in TestOperations \cup TestAsyncOperations
    ELSE Len(operations) < MaxOps /\ operation.n <= MaxCount

\* the counts handed to take / skip
Counts == (0 .. MaxCount) \cup { operation.n : operation \in TestOperations }

\* ------------------------------------------------------ Chain: builder calls
\* every builder method takes `mut self` by value and returns it: it can be
\* called only on a chain the caller still owns
push(operation) ==
    /\ state = "Building"
    /\ MayAppend(operation)
    /\ operations' = Append(operations, operation)
    /\ UNCHANGED << source, kind, state, data, pc, result, awaitVars, calls,
                    returned, terminalCalls, callVars >>

\* map applying the mapper to the data at once, besides recording it
map_eager(mapper) ==
    /\ kind = "sync"
    /\ state = "Building"
    /\ MayAppend(Map(mapper))
    /\ LET r == map_collect(data, mapper, Len(operations) + 1,
                            Outcome(<<>>, calls, FALSE))
       IN  data' = r.out /\ calls' = r.calls
    /\ operations' = Append(operations, Map(mapper))
    /\ UNCHANGED << source, kind, state, pc, result, awaitVars, returned,
                    terminalCalls, callVars >>

map(mapper) == kind = "sync" /\ push(Map(mapper))

filter(predicate) == kind = "sync" /\ push(Filter(predicate))

take(n) == kind = "sync" /\ push(Take(n))

skip(n) == kind = "sync" /\ push(Skip(n))

reverse == kind = "sync" /\ push(Reverse)

\* ------------------------------------------------------ Chain: terminal call
\* one arm of `match operation` in value()
apply_operation(operation, res, i, log) ==
    CASE operation.tag = "Map" ->
             map_collect(res, operation.f, i, Outcome(<<>>, log, FALSE))
      [] operation.tag = "Filter" ->
             filter_collect(res, operation.f, i, Outcome(<<>>, log, FALSE))
      [] operation.tag = "Take" ->
             Outcome(take_collect(res, operation.n, <<>>), log, FALSE)
      [] operation.tag = "Skip" ->
             Outcome(skip_collect(res, operation.n), log, FALSE)
      [] operation.tag = "Reverse" ->
             Outcome(slice_reverse(res, 1), log, FALSE)

\* value_loop taking the operations from the last appended to the first
RECURSIVE value_loop_backwards(_, _, _, _)
value_loop_backwards(res, ops, i, log) ==
    IF i > Len(ops) THEN Outcome(res, log, FALSE)
    ELSE LET step == apply_operation(ops[Len(ops) + 1 - i], res, i, log)
         IN  IF step.panicked THEN step
             ELSE value_loop_backwards(step.out, ops, i + 1, step.calls)

\* value_loop fusing a map / filter with a take that follows a map: the
\* take is applied to the input first, so the closure sees fewer elements
RECURSIVE value_loop_fused(_, _, _, _)
value_loop_fused(res, ops, i, log) ==
    IF i > Len(ops) THEN Outcome(res, log, FALSE)
    ELSE LET fuse == /\ i < Len(ops)
                     /\ ops[i].tag = "Map"
                     /\ ops[i + 1].tag = "Take"
             input == IF fuse THEN take_collect(res, ops[i + 1].n, <<>>) ELSE res
             step == apply_operation(ops[i], input, i, log)
         IN  IF step.panicked THEN step
             ELSE value_loop_fused(step.out, ops, i + 1, step.calls)

\* `for operation in self.operations { match operation { ... } }`, from the
\* i-th operation on; a panicking closure unwinds out of the loop
RECURSIVE value_loop(_, _, _, _)
value_loop(res, ops, i, log) ==
    IF i > Len(ops) THEN Outcome(res, log, FALSE)
    ELSE LET step == apply_operation(ops[i], res, i, log)
         IN  IF step.panicked THEN step
             ELSE value_loop(step.out, ops, i + 1, step.calls)

\* T: Into<U> with U = T (`let result: Vec<i32> = chain(..).collect()`): the
\* reflexive `impl From<T> for T`, which returns its argument
into(x) == x

\* the terminal call working on the caller's slice instead of a copy
consume_in_place(r) ==
    /\ state' = "Consumed"
    /\ terminalCalls' = terminalCalls + 1
    /\ result' = r.out
    /\ source' = r.out
    /\ calls' = r.calls
    /\ pc' = IF r.panicked THEN "panicked" ELSE "done"
    /\ UNCHANGED << kind, data, operations, awaitVars, callVars >>

\* the chain is moved into the terminal call, which runs the loop on
\* `let mut result = self.data;` and returns or unwinds
consume(r) ==
    /\ state' = "Consumed"
    /\ terminalCalls' = terminalCalls + 1
    /\ result' = r.out
    /\ calls' = r.calls
    /\ pc' = IF r.panicked THEN "panicked" ELSE "done"
    /\ UNCHANGED << source, kind, data, operations, awaitVars, callVars >>

\* value callable on a chain that was consumed already (`&self`)
value_again ==
    /\ kind = "sync"
    /\ terminalCalls < 2
    /\ LET r == value_loop(data, operations, 1, calls)
       IN  /\ consume(r)
           /\ returned' = IF r.panicked THEN <<>> ELSE << r.out >>

\* value(self) -> Vec<T>
value ==
    /\ kind = "sync"
    /\ state = "Building"
    /\ LET r == value_loop(data, operations, 1, calls)
       IN  /\ consume(r)
           /\ returned' = IF r.panicked THEN <<>> ELSE << r.out >>

\* collect returning the data without running the operations
collect_unevaluated ==
    /\ kind = "sync"
    /\ state = "Building"
    /\ consume(Outcome(data, calls, FALSE))
    /\ returned' = << data >>

\* collect(self) -> Vec<U>: self.value().into_iter().map(|x| x.into()).collect()
collect ==
    /\ kind = "sync"
    /\ state = "Building"
    /\ LET r == value_loop(data, operations, 1, calls)
       IN  /\ consume(r)
           /\ returned' = IF r.panicked THEN <<>>
                          ELSE << [k \in 1 .. Len(r.out) |-> into(r.out[k])] >>

\* ------------------------------------------------- AsyncChain: builder calls
map_async(mapper) == kind = "async" /\ push(MapAsync(mapper))

filter_async(predicate) == kind = "async" /\ push(FilterAsync(predicate))

async_take(n) == kind = "async" /\ push(Take(n))

async_skip(n) == kind = "async" /\ push(Skip(n))

async_reverse == kind = "async" /\ push(Reverse)

\* ------------------------------------------------- AsyncChain: terminal call
\* The locals of the future returned by r#await(self).
Frame(res, i, it, nr, pend, log, at) ==
    [result |-> res, opIdx |-> i, iter |-> it, new_result |-> nr,
     pending |-> pend, calls |-> log, pc |-> at]

\* create_future starting the futures of all remaining items together
create_all_futures(fr) ==
    LET started == [k \in 1 .. Len(fr.iter) |-> Call(fr.opIdx, fr.iter[k])]
    IN  [fr EXCEPT !.pending = @ \o started,
                   !.iter = <<>>,
                   !.calls = @ \o started,
                   !.pc = "await"]

\* `mapper(&item)` / `predicate(&item)`: the closure is called on the next
\* item and returns a future, on which the chain's future suspends
create_future(fr) ==
    LET item == Head(fr.iter)
    IN  [fr EXCEPT !.pending = Append(@, Call(fr.opIdx, item)),
                   !.iter = Tail(@),
                   !.calls = Append(@, Call(fr.opIdx, item)),
                   !.pc = "await"]

\* the chain's future runs from one suspension to the next:
\* next_item is `for item in result { ... }` of a MapAsync / FilterAsync
\* arm, next_operation is `for operation in self.operations { match ... }`
RECURSIVE next_item(_, _), next_operation(_, _)
next_item(ops, fr) ==
    IF fr.iter = <<>>
    THEN \* `result = new_result;`
         next_operation(ops, [fr EXCEPT !.result = fr.new_result,
                                        !.new_result = <<>>,
                                        !.opIdx = @ + 1])
    ELSE create_future(fr)

next_operation(ops, fr) ==
    IF fr.opIdx > Len(ops) THEN [fr EXCEPT !.pc = "done"]
    ELSE LET operation == ops[fr.opIdx]
         IN  CASE operation.tag \in {"MapAsync", "FilterAsync"} ->
                      \* `let mut new_result = Vec::new(); for item in result`
                      next_item(ops, [fr EXCEPT !.iter = fr.result, !.new_result = <<>>])
               [] operation.tag = "Take" ->
                      next_operation(ops,
                          [fr EXCEPT !.result = take_collect(fr.result, operation.n, <<>>),
                                     !.opIdx = @ + 1])
               [] operation.tag = "Skip" ->
                      next_operation(ops,
                          [fr EXCEPT !.result = skip_collect(fr.result, operation.n),
                                     !.opIdx = @ + 1])
               [] operation.tag = "Reverse" ->
                      next_operation(ops,
                          [fr EXCEPT !.result = slice_reverse(fr.result, 1),
                                     !.opIdx = @ + 1])

\* push_completed inserting at the front
push_completed_front(operation, fut, nr) ==
    CASE operation.tag = "MapAsync" -> << mapper_call(operation.f, fut.arg) >> \o nr
      [] operation.tag = "FilterAsync" ->
             IF predicate_call(operation.f, fut.arg) THEN << fut.arg >> \o nr ELSE nr

\* the awaited future completed with a value: `new_result.push(mapped)` or
\* `if predicate(&item).await { new_result.push(item) }`
push_completed(operation, fut, nr) ==
    CASE operation.tag = "MapAsync" -> Append(nr, mapper_call(operation.f, fut.arg))
      [] operation.tag = "FilterAsync" ->
             IF predicate_call(operation.f, fut.arg) THEN Append(nr, fut.arg) ELSE nr

\* does the awaited future panic when polled?
future_panics(operation, fut) ==
    operation.tag = "MapAsync" /\ mapper_panics(operation.f, fut.arg)

Store(fr) ==
    /\ result' = fr.result
    /\ opIdx' = fr.opIdx
    /\ iter' = fr.iter
    /\ new_result' = fr.new_result
    /\ pending' = fr.pending
    /\ calls' = fr.calls
    /\ pc' = fr.pc
    /\ returned' = IF fr.pc = "done" THEN << fr.result >> ELSE <<>>

\* r#await(self): `let mut result = self.data;`, then the loop up to its
\* first suspension
await ==
    /\ kind = "async"
    /\ state = "Building"
    /\ Store(next_operation(operations,
                 Frame(data, 1, <<>>, <<>>, <<>>, calls, "build")))
    /\ state' = "Consumed"
    /\ terminalCalls' = terminalCalls + 1
    /\ UNCHANGED << source, kind, data, operations, callVars >>

\* future_ready giving up on the awaited future (a timeout or a cancellation)
future_ready_cancelled ==
    /\ pc = "await"
    /\ pending # <<>>
    /\ pc' = "cancelled"
    /\ pending' = <<>>
    /\ UNCHANGED << source, kind, state, data, operations, result, opIdx, iter,
                    new_result, calls, returned, terminalCalls, callVars >>

\* the element future the chain is suspended on completes; the chain's
\* future resumes and runs to its next suspension, to its end, or unwinds
future_ready ==
    /\ pc = "await"
    /\ pending # <<>>
    /\ LET fut == Head(pending)
           operation == operations[fut.op]
       IN  IF future_panics(operation, fut)
           THEN Store(Frame(result, opIdx, iter, new_result, Tail(pending),
                            calls, "panicked"))
           ELSE Store(next_item(operations,
                    Frame(result, opIdx, iter,
                          push_completed(operation, fut, new_result),
                          Tail(pending), calls, "await")))
    /\ UNCHANGED << source, kind, state, data, operations, terminalCalls,
                    callVars >>

Next ==
    \/ \E mapper \in Mappers : map(mapper)
    \/ \E predicate \in Predicates : filter(predicate)
    \/ \E n \in Counts : take(n)
    \/ \E n \in Counts : skip(n)
    \/ reverse
    \/ value
    \/ collect
    \/ \E mapper \in Mappers : map_async(mapper)
    \/ \E predicate \in Predicates : filter_async(predicate)
    \/ \E n \in Counts : async_take(n)
    \/ \E n \in Counts : async_skip(n)
    \/ async_reverse
    \/ await
    \/ future_ready

Spec == Init /\ [][Next]_vars

\* ======================================================= free functions
\* One call of a free function per behaviour; the chain variables stay as
\* they are when no chain exists.
NoChain ==
    /\ source = <<>>
    /\ kind = "sync"
    /\ state = "Building"
    /\ data = <<>>
    /\ operations = <<>>
    /\ pc = "build"
    /\ result = <<>>
    /\ opIdx = 0
    /\ iter = <<>>
    /\ new_result = <<>>
    /\ pending = <<>>
    /\ calls = <<>>
    /\ returned = <<>>
    /\ terminalCalls = 0

CallInit == NoChain /\ NoCall

\* Result<Vec<R>>: Ok(results) / Err(LodashError::InvalidInput { .. })
Ok(v) == [tag |-> "Ok", value |-> v, kind |-> ""]

Err(k) == [tag |-> "Err", value |-> <<>>, kind |-> k]

\* a plain return value (Vec<U>, Option<&T>, ...)
Value(v) == [tag |-> "Value", value |-> v, kind |-> ""]

\* the call unwound with a panic
Panic(k) == [tag |-> "Panic", value |-> <<>>, kind |-> k]

\* the arguments are bound when the function is called
Start(f, its, op, c) ==
    /\ callPc = "idle"
    /\ fn' = f
    /\ items' = its
    /\ closure' = op
    /\ count' = c

Return(v) ==
    /\ outcome' = v
    /\ callPc' = "returned"

\* ----------------------------------------- utils/async_support.rs: execute_*
\* data of test_execute_parallel / test_execute_sequential,
\* test_execute_with_concurrency and test_execute_with_concurrency_zero
OneToEight == <<1, 2, 3, 4, 5, 6, 7, 8>>

ExecTestItems == { <<1, 2, 3, 4, 5>>, OneToEight, <<1, 2, 3>> }

ExecItems == SeqsUpTo(Elems, MaxLen) \cup ExecTestItems

\* test_execute_with_concurrency runs OneToEight three at a time
TestConcurrency == 3

Concurrencies == (0 .. MaxCount) \cup {TestConcurrency}

\* the limits tried on an item list: the longest list is run as its test does
ConcurrenciesFor(its) ==
    IF its = OneToEight THEN {0, TestConcurrency} ELSE Concurrencies

\* the closures handed to the execute_* functions: F: Fn(&T) -> Fut with
\* Fut::Output = R, R = i32 or bool
ExecOperations == { "double", "triple", "even" }

operation_call(op, x) ==
    IF op \in Predicates THEN predicate_call(op, x) ELSE mapper_call(op, x)

\* the future `operation(item)` returned: out is <<>> while it is pending and
\* <<v>> once it completed with v
NewFuture(x) == [arg |-> x, out |-> <<>>]

\* `items.iter().map(|item| operation(item))`, drained by join_all when it is
\* built: the closure is called on every item, in order
create_futures(chunk) == [k \in 1 .. Len(chunk) |-> NewFuture(chunk[k])]

AllDone(w) == \A k \in 1 .. Len(w) : Len(w[k].out) = 1

\* join_all handing out the outputs in the order the futures completed
join_all_output_by_completion(w) ==
    LET first == Len(finished') - Len(w)
        base == invoked - Len(w)
    IN  [k \in 1 .. Len(w) |-> w[finished'[first + k] - base].out[1]]

\* Output of join_all: each future's output is kept in the slot of the
\* future, the Vec is collected from the slots in order
join_all_output(w) == [k \in 1 .. Len(w) |-> w[k].out[1]]

\* items.chunks(concurrency): the chunk after `done` items
chunks_next(its, done, n) ==
    SubSeq(its, done + 1, IF done + n <= Len(its) THEN done + n ELSE Len(its))

\* `while let Some(chunk) = chunks.next() { join_all(..).await; .. }` then
\* `Ok(results)`, with `done` items handled and `res` accumulated
next_chunk(its, n, done, res) ==
    /\ results' = res
    /\ IF done >= Len(its)
       THEN /\ work' = <<>>
            /\ invoked' = done
            /\ Return(Ok(res))
       ELSE LET chunk == chunks_next(its, done, n)
            IN  /\ work' = create_futures(chunk)
                /\ invoked' = done + Len(chunk)
                /\ callPc' = "joining"
                /\ outcome' = outcome

\* `for item in items { let result = operation(item).await; .. }` then
\* `Ok(results)`
next_sequential(its, done, res) ==
    /\ results' = res
    /\ IF done >= Len(its)
       THEN /\ work' = <<>>
            /\ invoked' = done
            /\ Return(Ok(res))
       ELSE /\ work' = << NewFuture(its[done + 1]) >>
            /\ invoked' = done + 1
            /\ callPc' = "awaiting"
            /\ outcome' = outcome

\* join_all over all the items at once, up to its suspension
join_all_items(its) ==
    /\ invoked' = Len(its)
    /\ work' = create_futures(its)
    /\ results' = <<>>
    /\ finished' = <<>>

execute_parallel(its, op) ==
    /\ Start("execute_parallel", its, op, 0)
    /\ join_all_items(its)
    /\ IF its = <<>> THEN Return(Ok(<<>>))
       ELSE callPc' = "joining" /\ outcome' = outcome
    /\ UNCHANGED chainVars

execute_sequential(its, op) ==
    /\ Start("execute_sequential", its, op, 0)
    /\ finished' = <<>>
    /\ next_sequential(its, 0, <<>>)
    /\ UNCHANGED chainVars

\* execute_with_concurrency taking a limit of 0 for a limit of 1
execute_with_concurrency_clamped(its, op, concurrency) ==
    /\ Start("execute_with_concurrency", its, op, concurrency)
    /\ finished' = <<>>
    /\ next_chunk(its, IF concurrency = 0 THEN 1 ELSE concurrency, 0, <<>>)
    /\ UNCHANGED chainVars

execute_with_concurrency(its, op, concurrency) ==
    /\ Start("execute_with_concurrency", its, op, concurrency)
    /\ finished' = <<>>
    /\ IF concurrency = 0
       THEN /\ Return(Err("InvalidInput"))
            /\ UNCHANGED << invoked, work, results >>
       ELSE next_chunk(its, concurrency, 0, <<>>)
    /\ UNCHANGED chainVars

\* ------------------------- collection/async_support.rs: map_async, filter_async
\* the loop over predicate_results inserting at the front
push_included_front(w) ==
    LET RECURSIVE loop(_, _)
        loop(k, res) ==
            IF k > Len(w) THEN res
            ELSE loop(k + 1, IF w[k].out[1] THEN << w[k].arg >> \o res ELSE res)
    IN  loop(1, <<>>)

\* `for (item, should_include) in predicate_results { if should_include {
\* results.push(item.clone()) } }`
push_included(w) ==
    LET RECURSIVE loop(_, _)
        loop(k, res) ==
            IF k > Len(w) THEN res
            ELSE loop(k + 1, IF w[k].out[1] THEN Append(res, w[k].arg) ELSE res)
    IN  loop(1, <<>>)

\* collection::async_support::map_async
collection_map_async(its, iteratee) ==
    /\ Start("map_async", its, iteratee, 0)
    /\ join_all_items(its)
    /\ IF its = <<>> THEN Return(Value(<<>>))
       ELSE callPc' = "joining" /\ outcome' = outcome
    /\ UNCHANGED chainVars

\* collection::async_support::filter_async
collection_filter_async(its, predicate) ==
    /\ Start("filter_async", its, predicate, 0)
    /\ join_all_items(its)
    /\ IF its = <<>> THEN Return(Value(<<>>))
       ELSE callPc' = "joining" /\ outcome' = outcome
    /\ UNCHANGED chainVars

\* ---------------------------------------------------- a future completes
\* the function resumes after `join_all(..).await` / `operation(item).await`
\* with the outputs `out`
resume(out) ==
    CASE fn = "execute_parallel" ->
             /\ results' = out
             /\ Return(Ok(out))
             /\ UNCHANGED << invoked, work >>
      [] fn = "execute_with_concurrency" ->
             \* `results.extend(chunk_results);`
             next_chunk(items, count, invoked, results \o out)
      [] fn = "execute_sequential" ->
             \* `results.push(result);`
             next_sequential(items, invoked, Append(results, out[1]))
      [] fn = "map_async" ->
             /\ results' = out
             /\ Return(Value(out))
             /\ UNCHANGED << invoked, work >>
      [] fn = "filter_async" ->
             /\ results' = push_included(work')
             /\ Return(Value(results'))
             /\ UNCHANGED invoked

\* the k-th future the call waits for completes (any pending one may); when
\* it was the last one pending, the call resumes and runs to its next
\* suspension or to its return
future_completes(k) ==
    /\ callPc \in {"joining", "awaiting"}
    /\ k \in 1 .. Len(work)
    /\ work[k].out = <<>>
    /\ LET w == [work EXCEPT ![k].out = << operation_call(closure, work[k].arg) >>]
       IN  /\ finished' = Append(finished, invoked - Len(work) + k)
           /\ IF AllDone(w)
              THEN IF fn = "filter_async"
                   THEN work' = w /\ resume(<<>>)
                   ELSE resume(join_all_output(w))
              ELSE /\ work' = w
                   /\ UNCHANGED << invoked, results, outcome, callPc >>
    /\ UNCHANGED << fn, items, closure, count, chainVars >>

ExecNext ==
    \/ \E its \in ExecItems \ {OneToEight}, op \in ExecOperations :
           execute_parallel(its, op)
    \/ \E its \in ExecItems \ {OneToEight}, op \in ExecOperations :
           execute_sequential(its, op)
    \/ \E its \in ExecItems, op \in ExecOperations :
           \E concurrency \in ConcurrenciesFor(its) :
               execute_with_concurrency(its, op, concurrency)
    \/ \E its \in ExecItems \ {OneToEight}, iteratee \in ExecOperations \ Predicates :
           collection_map_async(its, iteratee)
    \/ \E its \in ExecItems \ {OneToEight}, predicate \in Predicates :
           collection_filter_async(its, predicate)
    \/ \E k \in 1 .. MaxLen + 8 : future_completes(k)

ExecSpec == CallInit /\ [][ExecNext]_vars

\* ------------------------------------------- extensions/parallel.rs (rayon)
\* data of test_map_parallel, test_filter_parallel, test_reduce_parallel and
\* test_find_parallel
ParItems == SeqsUpTo(Elems, MaxLen) \cup { <<1, 2, 3, 4, 5>> }

\* reducers: Fn(U, &T) -> U
Reducers == { "add" }

reducer_call(reducer, acc, x) ==
    CASE reducer = "add" -> acc + x

\* initial values handed to reduce_parallel
Initials == { 0, 1 }

\* collection.iter().fold(initial, iteratee): the sequential reduce
RECURSIVE reduce(_, _, _)
reduce(its, iteratee, initial) ==
    IF its = <<>> THEN initial
    ELSE reduce(Tail(its), iteratee, reducer_call(iteratee, initial, Head(its)))

\* collection.iter().find(|item| predicate(item)): the position of the first
\* item satisfying the predicate, <<k>> for Some(&collection[k]) and <<>> for
\* None
RECURSIVE find_from(_, _, _)
find_from(its, predicate, k) ==
    IF k > Len(its) THEN <<>>
    ELSE IF predicate_call(predicate, its[k]) THEN << k >>
    ELSE find_from(its, predicate, k + 1)

find(its, predicate) == find_from(its, predicate, 1)

\* A piece of the slice handed to one worker: par_iter() splits the slice
\* into contiguous pieces, as the pool decides; `base` items of the slice
\* precede the piece.
NewPiece(chunk, base) == [arg |-> chunk, base |-> base, out |-> <<>>]

\* every way of cutting the slice into contiguous non-empty pieces
RECURSIVE SplitsFrom(_, _)
SplitsFrom(its, base) ==
    IF its = <<>> THEN { <<>> }
    ELSE UNION { { << NewPiece(SubSeq(its, 1, n), base) >> \o rest :
                     rest \in SplitsFrom(SubSeq(its, n + 1, Len(its)), base + n) } :
                 n \in 1 .. Len(its) }

Splits(its) == SplitsFrom(its, 0)

\* the closure of `.reduce(|| initial, |a, b| a)`
reduce_op(a, b) == a

\* what one worker produces from its piece
piece_output(f, op, init, piece) ==
    CASE f = "map_parallel" ->
             [k \in 1 .. Len(piece.arg) |-> mapper_call(op, piece.arg[k])]
      [] f = "filter_parallel" ->
             SelectSeq(piece.arg, LAMBDA x : predicate_call(op, x))
      [] f = "reduce_parallel" ->
             \* the fold of the piece starts from `initial`; the reduce folder
             \* starts from its identity `initial` and consumes the fold
             reduce_op(init, reduce(piece.arg, op, init))
      [] f = "find_parallel" ->
             LET hit == find(piece.arg, op)
             IN  IF hit = <<>> THEN <<>> ELSE << piece.base + hit[1] >>

\* the outputs of the pieces concatenated in the order the pieces finished
collect_pieces_by_completion(w) ==
    LET RECURSIVE loop(_, _)
        loop(k, res) ==
            IF k > Len(w) THEN res
            ELSE loop(k + 1, res \o w[finished'[k]].out[1])
    IN  loop(1, <<>>)

\* collect(): the outputs of the pieces concatenated in the order of the
\* pieces in the slice
collect_pieces(w) ==
    LET RECURSIVE loop(_, _)
        loop(k, res) ==
            IF k > Len(w) THEN res
            ELSE loop(k + 1, res \o w[k].out[1])
    IN  loop(1, <<>>)

\* reduce(): the identity and the outputs of the pieces combined with
\* reduce_op, left to right (reduce_op is associative, so every reduction
\* tree gives this value)
reduce_pieces(w, identity) ==
    LET RECURSIVE loop(_, _)
        loop(k, acc) ==
            IF k > Len(w) THEN acc
            ELSE loop(k + 1, reduce_op(acc, w[k].out[1]))
    IN  loop(1, identity)

\* find_any(): the reducer keeps the left piece's item when it has one
\* (`left.or(right)`)
find_pieces(w) ==
    LET RECURSIVE loop(_)
        loop(k) ==
            IF k > Len(w) THEN <<>>
            ELSE IF w[k].out[1] # <<>> THEN w[k].out[1]
            ELSE loop(k + 1)
    IN  loop(1)

\* the value the call returns once every piece is finished
join_pieces(f, init, w) ==
    CASE f \in {"map_parallel", "filter_parallel"} -> collect_pieces(w)
      [] f = "reduce_parallel" -> reduce_pieces(w, init)
      [] f = "find_parallel" -> find_pieces(w)

\* the calling thread hands the pieces to the pool and blocks until all of
\* them are finished; a slice without items is finished at once
fork(f, its, op, init, split) ==
    /\ Start(f, its, op, init)
    /\ invoked' = 0
    /\ work' = split
    /\ finished' = <<>>
    /\ results' = <<>>
    /\ IF split = <<>> THEN Return(Value(join_pieces(f, init, <<>>)))
       ELSE callPc' = "joining" /\ outcome' = outcome
    /\ UNCHANGED chainVars

\* collection.par_iter().map(iteratee).collect()
map_parallel(its, iteratee) ==
    /\ callPc = "idle"
    /\ \E split \in Splits(its) : fork("map_parallel", its, iteratee, 0, split)

\* collection.par_iter().filter(|item| predicate(item)).cloned().collect()
filter_parallel(its, predicate) ==
    /\ callPc = "idle"
    /\ \E split \in Splits(its) : fork("filter_parallel", its, predicate, 0, split)

\* collection.par_iter().fold(|| initial, |acc, item| iteratee(acc, item))
\*     .reduce(|| initial, |a, b| a)
reduce_parallel(its, iteratee, initial) ==
    /\ callPc = "idle"
    /\ \E split \in Splits(its) : fork("reduce_parallel", its, iteratee, initial, split)

\* collection.par_iter().find_any(|item| predicate(item))
find_parallel(its, predicate) ==
    /\ callPc = "idle"
    /\ \E split \in Splits(its) : fork("find_parallel", its, predicate, 0, split)

\* find_any: has a finished piece found an item?  The other workers stop at
\* the next item once they see it has.
found == \E k \in 1 .. Len(work) : work[k].out # <<>> /\ work[k].out[1] # <<>>

\* the worker of piece k finishes (any unfinished one may); for find_any a
\* worker that saw `found` before reaching its own match finishes without an
\* item; the call returns when the last piece is finished
piece_done(k, stopped) ==
    /\ callPc = "joining"
    /\ fn \in {"map_parallel", "filter_parallel", "reduce_parallel", "find_parallel"}
    /\ k \in 1 .. Len(work)
    /\ work[k].out = <<>>
    /\ stopped => (fn = "find_parallel" /\ found)
    /\ LET out == IF stopped THEN <<>> ELSE piece_output(fn, closure, count, work[k])
           w == [work EXCEPT ![k].out = << out >>]
       IN  /\ work' = w
           /\ finished' = Append(finished, k)
           /\ invoked' = invoked + Len(work[k].arg)
           /\ IF AllDone(w)
              THEN /\ results' = << join_pieces(fn, count, w) >>
                   /\ Return(Value(join_pieces(fn, count, w)))
              ELSE UNCHANGED << results, outcome, callPc >>
    /\ UNCHANGED << fn, items, closure, count, chainVars >>

ParNext ==
    \/ \E its \in ParItems, iteratee \in Mappers \ {"recip"} :
           map_parallel(its, iteratee)
    \/ \E its \in ParItems, predicate \in Predicates :
           filter_parallel(its, predicate)
    \/ \E its \in ParItems, iteratee \in Reducers, initial \in Initials :
           reduce_parallel(its, iteratee, initial)
    \/ \E its \in ParItems, predicate \in Predicates :
           find_parallel(its, predicate)
    \/ \E k \in 1 .. MaxLen + 5, stopped \in BOOLEAN : piece_done(k, stopped)

ParSpec == CallInit /\ [][ParNext]_vars

\* ------------------------- collection/mod.rs, collection/operation.rs: access
\* data of the doc examples of Collection::get and of sample / sample_size
CollItems == SeqsUpTo(Elems, MaxLen) \cup { <<1, 2, 3>>, <<1, 2, 3, 4, 5>> }

\* the 0-based indices tried: within, at and beyond the length; 5 is the
\* index of the doc example of get
DocIndex == 5

Indices == (0 .. MaxLen + 1) \cup {DocIndex}

\* the sample sizes tried: 3 is the size of the doc example of sample_size
DocSampleSize == 3

SampleSizes == (0 .. MaxCount + 1) \cup {DocSampleSize}

\* Option<&T>: <<>> for None, <<x>> for Some(&x)
None == <<>>

Some(x) == << x >>

\* slice::get(index): a checked access
slice_get(s, i) == IF i < Len(s) THEN Some(s[i + 1]) ELSE None

\* `self.data[index]`: the slice index operator panics when the index is not
\* below the length
slice_index_panics(s, i) == i >= Len(s)

\* a free function or method that runs to its return or unwinds within the
\* call
call(f, its, c, out) ==
    /\ Start(f, its, "", c)
    /\ outcome' = out
    /\ callPc' = IF out.tag = "Panic" THEN "panicked" ELSE "returned"
    /\ results' = IF out.tag = "Panic" THEN <<>> ELSE << out.value >>
    /\ UNCHANGED << invoked, work, finished, chainVars >>

\* Collection::get(&self, index)
get(its, i) ==
    /\ i \in Nat
    /\ call("get", its, i, Value(slice_get(its, i)))

\* <Collection<T> as Index<usize>>::index(&self, index)
index(its, i) ==
    /\ i \in Nat
    /\ call("index", its, i,
            IF slice_index_panics(its, i) THEN Panic("index out of bounds")
            ELSE Value(its[i + 1]))

\* <Collection<T> as IndexMut<usize>>::index_mut(&mut self, index)
index_mut(its, i) ==
    /\ i \in Nat
    /\ call("index_mut", its, i,
            IF slice_index_panics(its, i) THEN Panic("index out of bounds")
            ELSE Value(its[i + 1]))

\* sample: None for an empty slice, else `choose` picks any element
sample(its) ==
    IF its = <<>> THEN call("sample", its, 0, Value(None))
    ELSE \E k \in 1 .. Len(its) : call("sample", its, 0, Value(Some(its[k])))

\* Vec::truncate(n): keeps the first n elements, all of them when n exceeds
\* the length
truncate(s, n) == IF n < Len(s) THEN SubSeq(s, 1, n) ELSE s

\* sample_size: an empty Vec for an empty slice or n = 0, else the copy is
\* shuffled into any order and truncated to n
sample_size(its, n) ==
    IF its = <<>> \/ n = 0 THEN call("sample_size", its, n, Value(<<>>))
    ELSE \E order \in Permutations(1 .. Len(its)) :
             call("sample_size", its, n,
                  Value(truncate([k \in 1 .. Len(its) |-> its[order[k]]], n)))

CollNext ==
    \/ \E its \in CollItems, i \in Indices : get(its, i)
    \/ \E its \in CollItems, i \in Indices : index(its, i)
    \/ \E its \in CollItems, i \in Indices : index_mut(its, i)
    \/ \E its \in CollItems : sample(its)
    \/ \E its \in CollItems, n \in SampleSizes : sample_size(its, n)

CollSpec == CallInit /\ [][CollNext]_vars

\* ------------------- collection/query.rs, collection/transform.rs: grouping
\* The f64 items of test_group_by (6.1, 4.2, 6.3) are held in tenths.
Tenths == { 61, 42, 63 }

\* the (name, age) items of test_key_by / test_sort_by / test_order_by_* and
\* of the doc example of order_by (bob aged 30)
User(name, age) == [name |-> name, age |-> age]

Users == { User("john", 30), User("jane", 25), User("bob", 35), User("bob", 30) }

TestUsers == << User("john", 30), User("jane", 25), User("bob", 35) >>

DocUsers == << User("john", 30), User("jane", 25), User("bob", 30) >>

NumberItems == SeqsUpTo(Tenths, MaxLen) \cup { <<61, 42, 63>> }

UserItems == SeqsUpTo(Users, MaxLen) \cup { TestUsers, DocUsers }

PartitionItems == SeqsUpTo(Elems, MaxLen) \cup { <<1, 2, 3, 4, 5>> }

\* key closures Fn(&T) -> K: `|x| (*x as f64).floor() as i32` on numbers,
\* `|(_, age)| *age` and `|(name, _)| name.to_string()` on users
NumberKeyers == { "floor" }

UserKeyers == { "age", "name" }

Keyers == NumberKeyers \cup UserKeyers

\* the key closures used for sorting (K: Ord)
OrdKeyers == { "floor", "age" }

iteratee_call(keyer, x) ==
    CASE keyer = "floor" -> i32_div(x, 10)
      [] keyer = "age"   -> x.age
      [] keyer = "name"  -> x.name

\* HashMap: a function from the keys inserted so far
EmptyMap == <<>>

contains_key(m, k) == k \in DOMAIN m

\* HashMap::insert(k, v): adds the entry or replaces the value of the key
insert(m, k, v) ==
    IF contains_key(m, k) THEN [m EXCEPT ![k] = v] ELSE m @@ (k :> v)

\* partition pushing every item onto falsy
RECURSIVE partition_loop_all_falsy(_, _, _, _)
partition_loop_all_falsy(rest, predicate, truthy, falsy) ==
    IF rest = <<>> THEN << truthy, falsy >>
    ELSE LET x == Head(rest)
         IN  IF predicate_call(predicate, x)
             THEN partition_loop_all_falsy(Tail(rest), predicate,
                                           Append(truthy, x), Append(falsy, x))
             ELSE partition_loop_all_falsy(Tail(rest), predicate,
                                           truthy, Append(falsy, x))

\* `for item in collection { if predicate(item) { truthy.push(item.clone()) }
\* else { falsy.push(item.clone()) } }` then `(truthy, falsy)`
RECURSIVE partition_loop(_, _, _, _)
partition_loop(rest, predicate, truthy, falsy) ==
    IF rest = <<>> THEN << truthy, falsy >>
    ELSE LET x == Head(rest)
         IN  IF predicate_call(predicate, x)
             THEN partition_loop(Tail(rest), predicate, Append(truthy, x), falsy)
             ELSE partition_loop(Tail(rest), predicate, truthy, Append(falsy, x))

\* group_by replacing the group of a key by the new item
RECURSIVE group_by_loop_replace(_, _, _)
group_by_loop_replace(rest, keyer, groups) ==
    IF rest = <<>> THEN groups
    ELSE LET x == Head(rest)
             k == iteratee_call(keyer, x)
         IN  group_by_loop_replace(Tail(rest), keyer, insert(groups, k, << x >>))

\* `for item in collection { let key = iteratee(item);
\* groups.entry(key).or_insert_with(Vec::new).push(item.clone()); }`
RECURSIVE group_by_loop(_, _, _)
group_by_loop(rest, keyer, groups) ==
    IF rest = <<>> THEN groups
    ELSE LET x == Head(rest)
             k == iteratee_call(keyer, x)
             entry == IF contains_key(groups, k) THEN groups[k] ELSE <<>>
         IN  group_by_loop(Tail(rest), keyer, insert(groups, k, Append(entry, x)))

\* `for item in collection { let key = iteratee(item);
\* *counts.entry(key).or_insert(0) += 1; }`
RECURSIVE count_by_loop(_, _, _)
count_by_loop(rest, keyer, counts) ==
    IF rest = <<>> THEN counts
    ELSE LET x == Head(rest)
             k == iteratee_call(keyer, x)
             entry == IF contains_key(counts, k) THEN counts[k] ELSE 0
         IN  count_by_loop(Tail(rest), keyer, insert(counts, k, entry + 1))

\* key_by keeping the first item of a key
RECURSIVE key_by_loop_keep_first(_, _, _)
key_by_loop_keep_first(rest, keyer, keyed) ==
    IF rest = <<>> THEN keyed
    ELSE LET x == Head(rest)
             k == iteratee_call(keyer, x)
         IN  key_by_loop_keep_first(Tail(rest), keyer,
                 IF contains_key(keyed, k) THEN keyed ELSE insert(keyed, k, x))

\* `for item in collection { let key = iteratee(item);
\* keyed.insert(key, item.clone()); }`
RECURSIVE key_by_loop(_, _, _)
key_by_loop(rest, keyer, keyed) ==
    IF rest = <<>> THEN keyed
    ELSE LET x == Head(rest)
             k == iteratee_call(keyer, x)
         IN  key_by_loop(Tail(rest), keyer, insert(keyed, k, x))

\* ------------------------------------------- collection/transform.rs: sorting
\* Ord::cmp on the keys
cmp(a, b) == IF a < b THEN "Less" ELSE IF a = b THEN "Equal" ELSE "Greater"

\* the comparator the slice is sorted with: sort_by_key(iteratee) compares
\* key(a) with key(b); order_by's closure for descending order is
\* `key_b.cmp(&key_a)`
compare(keyer, ascending, a, b) ==
    IF ascending
    THEN cmp(iteratee_call(keyer, a), iteratee_call(keyer, b))
    ELSE cmp(iteratee_call(keyer, b), iteratee_call(keyer, a))

\* slice::sort_by / sort_by_key: a stable sort.  Each element is inserted
\* behind the elements already placed that do not compare Greater than it.
insert_tail(placed, x, keyer, ascending) ==
    LET ahead == Cardinality({ j \in 1 .. Len(placed) :
                               compare(keyer, ascending, placed[j], x) # "Greater" })
    IN  SubSeq(placed, 1, ahead) \o << x >> \o SubSeq(placed, ahead + 1, Len(placed))

RECURSIVE slice_sort_by(_, _, _, _)
slice_sort_by(rest, keyer, ascending, placed) ==
    IF rest = <<>> THEN placed
    ELSE slice_sort_by(Tail(rest), keyer, ascending,
                       insert_tail(placed, Head(rest), keyer, ascending))

\* order_by sorting ascending and reversing the result for descending order
order_by_sorted_then_reversed(its, keyer, ascending) ==
    LET up == slice_sort_by(its, keyer, TRUE, <<>>)
    IN  IF ascending THEN up
        ELSE [k \in 1 .. Len(up) |-> up[Len(up) + 1 - k]]

\* `let mut sorted = collection.to_vec(); if ascending {
\* sorted.sort_by_key(iteratee) } else { sorted.sort_by(|a, b| ..) }`
order_by_sorted(its, keyer, ascending) ==
    IF ascending THEN slice_sort_by(its, keyer, TRUE, <<>>)
    ELSE slice_sort_by(its, keyer, FALSE, <<>>)

\* ------------------------------------------------------------ the calls
\* a call with a closure argument that runs to its return
call_with(f, its, op, c, out) ==
    /\ Start(f, its, op, c)
    /\ Return(Value(out))
    /\ results' = << out >>
    /\ invoked' = Len(its)
    /\ UNCHANGED << work, finished, chainVars >>

partition(its, predicate) ==
    /\ predicate \in Predicates
    /\ call_with("partition", its, predicate, 0,
                 partition_loop(its, predicate, <<>>, <<>>))

group_by(its, keyer) ==
    /\ keyer \in Keyers
    /\ call_with("group_by", its, keyer, 0, group_by_loop(its, keyer, EmptyMap))

count_by(its, keyer) ==
    /\ keyer \in Keyers
    /\ call_with("count_by", its, keyer, 0, count_by_loop(its, keyer, EmptyMap))

key_by(its, keyer) ==
    /\ keyer \in Keyers
    /\ call_with("key_by", its, keyer, 0, key_by_loop(its, keyer, EmptyMap))

\* `let mut sorted = collection.to_vec(); sorted.sort_by_key(iteratee);`
sort_by(its, keyer) ==
    /\ keyer \in OrdKeyers
    /\ call_with("sort_by", its, keyer, 0, slice_sort_by(its, keyer, TRUE, <<>>))

order_by(its, keyer, ascending) ==
    /\ keyer \in OrdKeyers
    /\ call_with("order_by", its, keyer, ascending,
                 order_by_sorted(its, keyer, ascending))

\* the calls made on numbers and the calls made on users
NumberCalls ==
    \/ \E its \in NumberItems, keyer \in NumberKeyers : group_by(its, keyer)
    \/ \E its \in NumberItems, keyer \in NumberKeyers : count_by(its, keyer)
    \/ \E its \in NumberItems, keyer \in NumberKeyers : key_by(its, keyer)
    \/ \E its \in NumberItems, keyer \in NumberKeyers : sort_by(its, keyer)
    \/ \E its \in NumberItems, keyer \in NumberKeyers, ascending \in BOOLEAN :
           order_by(its, keyer, ascending)

UserCalls ==
    \/ \E its \in UserItems, keyer \in UserKeyers : group_by(its, keyer)
    \/ \E its \in UserItems, keyer \in UserKeyers : count_by(its, keyer)
    \/ \E its \in UserItems, keyer \in UserKeyers : key_by(its, keyer)
    \/ \E its \in UserItems, keyer \in UserKeyers \cap OrdKeyers : sort_by(its, keyer)
    \/ \E its \in UserItems, keyer \in UserKeyers \cap OrdKeyers, ascending \in BOOLEAN :
           order_by(its, keyer, ascending)

TransformNext ==
    \/ \E its \in PartitionItems, predicate \in Predicates : partition(its, predicate)
    \/ NumberCalls
    \/ UserCalls

TransformSpec == CallInit /\ [][TransformNext]_vars

\* =================================================================== claims
\* what the specification says each operation does to a sequence
Min(a, b) == IF a <= b THEN a ELSE b

Reversed(s) == [k \in 1 .. Len(s) |-> s[Len(s) + 1 - k]]

Satisfies(predicate, x) == predicate_call(predicate, x)

Kept(s, predicate) == SelectSeq(s, LAMBDA x : Satisfies(predicate, x))

Applied(operation, s) ==
    CASE operation.tag \in {"Map", "MapAsync"} ->
             [k \in 1 .. Len(s) |-> mapper_call(operation.f, s[k])]
      [] operation.tag \in {"Filter", "FilterAsync"} -> Kept(s, operation.f)
      [] operation.tag = "Take" -> SubSeq(s, 1, Min(operation.n, Len(s)))
      [] operation.tag = "Skip" -> SubSeq(s, Min(operation.n, Len(s)) + 1, Len(s))
      [] operation.tag = "Reverse" -> Reversed(s)

RECURSIVE AppliedInOrder(_, _)
AppliedInOrder(ops, s) ==
    IF ops = <<>> THEN s ELSE AppliedInOrder(Tail(ops), Applied(Head(ops), s))

Evens == << Filter("even"), Map("triple"), Take(3) >>
OneToTen == <<1, 2, 3, 4, 5, 6, 7, 8, 9, 10>>
OneToFive == <<1, 2, 3, 4, 5>>

SyncDone == kind = "sync" /\ pc = "done"
AsyncDone == kind = "async" /\ pc = "done"

\* C1: whatever the source and the appended operations, a synchronous
\* terminal call that returns, returns the source with the operations
\* applied one after another in append order; filter(even).map(x*3).take(3)
\* on [1..10] gives [6,12,18] and map(x*2).filter(x>5) on [1..5] gives
\* [6,8,10].
C1_AppendOrder ==
    SyncDone =>
        /\ returned = << AppliedInOrder(operations, source) >>
        /\ (source = OneToTen /\ operations = Evens)
               => returned = << <<6, 12, 18>> >>
        /\ (source = OneToFive /\ operations = << Map("double"), Filter("gt5") >>)
               => returned = << <<6, 8, 10>> >>

C1_Witness ==
    /\ SyncDone
    /\ source = OneToTen
    /\ operations = Evens
    /\ returned = << <<6, 12, 18>> >>

\* C2: a chain is Building until its one terminal call and Consumed ever
\* after; builder calls happen on a Building chain and leave it Building;
\* nothing is appended to, and no terminal call is made on, a Consumed chain.
C2_Lifecycle ==
    /\ [](/\ state \in {"Building", "Consumed"}
          /\ (state = "Building") = (terminalCalls = 0)
          /\ (state = "Consumed") = (terminalCalls = 1))
    /\ [][/\ (operations' # operations) => (state = "Building" /\ state' = "Building")
          /\ (state = "Consumed") =>
                 /\ state' = "Consumed"
                 /\ operations' = operations
                 /\ data' = data
                 /\ terminalCalls' = terminalCalls]_vars

C2_Witness ==
    /\ kind = "async"
    /\ state = "Consumed"
    /\ terminalCalls = 1
    /\ pc = "await"
    /\ Len(operations) = MaxOps

\* C3: a builder call on a Chain appends one operation at the end of the
\* operation list and changes neither the data nor the operations appended
\* before, and calls no user closure; closures are called by the terminal
\* call only.
C3_BuilderFrame ==
    /\ [](state = "Building" => calls = <<>>)
    /\ [][kind = "sync" =>
             /\ (state' = "Building") =>
                    /\ Len(operations') = Len(operations) + 1
                    /\ SubSeq(operations', 1, Len(operations)) = operations
                    /\ data' = data
                    /\ calls' = calls
             /\ (calls' # calls) => (state = "Building" /\ state' = "Consumed")]_vars

C3_Witness ==
    /\ kind = "sync"
    /\ state = "Building"
    /\ data = <<1, 2>>
    /\ operations = << Map("double"), Filter("even") >>
    /\ calls = <<>>

\* the mappers of a list of Map operations, applied in append order to x
RECURSIVE Composed(_, _)
Composed(ops, x) ==
    IF ops = <<>> THEN x ELSE Composed(Tail(ops), mapper_call(Head(ops).f, x))

OnlyMaps == \A k \in 1 .. Len(operations) : operations[k].tag = "Map"

\* C4: a chain of map steps only returns a sequence as long as the source
\* whose i-th element is the mappers, composed in append order, applied to
\* the source's i-th element.
C4_MapOnly ==
    (SyncDone /\ OnlyMaps) =>
        /\ Len(returned[1]) = Len(source)
        /\ \A k \in 1 .. Len(source) :
               returned[1][k] = Composed(operations, source[k])

C4_Witness ==
    /\ SyncDone
    /\ source = <<1, 2>>
    /\ operations = << Map("double"), Map("triple") >>
    /\ returned = << <<6, 12>> >>

\* t is s with some elements removed: t[k] = s[at[k]] for increasing at
IsSubsequenceAt(t, s, at) ==
    /\ \A k \in 1 .. Len(t) : at[k] \in 1 .. Len(s) /\ t[k] = s[at[k]]
    /\ \A k \in 1 .. Len(t) - 1 : at[k] < at[k + 1]

\* the indices of s whose element satisfies the predicate, in increasing order
RECURSIVE TrueIndices(_, _, _)
TrueIndices(s, predicate, k) ==
    IF k > Len(s) THEN <<>>
    ELSE (IF Satisfies(predicate, s[k]) THEN <<k>> ELSE <<>>)
             \o TrueIndices(s, predicate, k + 1)

\* C5: a chain of one filter step returns exactly the elements of the source
\* that satisfy the predicate, in their original order, duplicates kept.
C5_FilterOnly ==
    \A predicate \in Predicates :
        (SyncDone /\ operations = << Filter(predicate) >>) =>
            LET at == TrueIndices(source, predicate, 1)
            IN  /\ Len(returned[1]) = Len(at)
                /\ IsSubsequenceAt(returned[1], source, at)

C5_Witness ==
    /\ SyncDone
    /\ source = <<2, 2>>
    /\ operations = << Filter("even") >>
    /\ returned = << <<2, 2>> >>

\* C6: take(n) alone returns the first min(n, len) elements of the source and
\* skip(n) alone returns the source without them, for n = 0 and n > len too;
\* the two results concatenated are the source.
C6_TakeSkip ==
    \A n \in Counts :
        LET m == Min(n, Len(source))
        IN  /\ (SyncDone /\ operations = << Take(n) >>) =>
                   /\ returned = << SubSeq(source, 1, m) >>
                   /\ returned[1] \o skip_collect(source, n) = source
            /\ (SyncDone /\ operations = << Skip(n) >>) =>
                   /\ returned = << SubSeq(source, m + 1, Len(source)) >>
                   /\ take_collect(source, n, <<>>) \o returned[1] = source

C6_Witness ==
    /\ SyncDone
    /\ source = <<2>>
    /\ operations = << Take(2) >>
    /\ returned = << <<2>> >>

\* C7: reverse alone returns the source in reversed order, and reverse twice
\* returns the source.
C7_Reverse ==
    /\ (SyncDone /\ operations = << Reverse >>) =>
           /\ Len(returned[1]) = Len(source)
           /\ \A k \in 1 .. Len(source) :
                  returned[1][k] = source[Len(source) + 1 - k]
    /\ (SyncDone /\ operations = << Reverse, Reverse >>) => returned = << source >>

C7_Witness ==
    /\ SyncDone
    /\ source = OneToFive
    /\ operations = << Reverse >>
    /\ returned = << <<5, 4, 3, 2, 1>> >>

FilterThenMap == << Filter("even"), Map("triple") >>
MapThenFilter == << Map("triple"), Filter("even") >>

\* C8 as stated: on [1,2,3,4,5] with p = is-even and f = multiply-by-3,
\* filter(p).map(f) gives [6,12] and map(f).filter(p) gives another sequence.
C8_AsStated ==
    (SyncDone /\ source = OneToFive) =>
        /\ (operations = FilterThenMap) => returned = << <<6, 12>> >>
        /\ (operations = MapThenFilter) => returned # << <<6, 12>> >>

\* C8, amended: on [1,2,3,4,5] with p = is-even and f = multiply-by-3,
\* filter(p).map(f) gives [6,12] and map(f).filter(p) gives [6,12] as well
\* (multiplying by 3 keeps parity); the order of the steps shows with
\* p = greater-than-5 and f = multiply-by-2, where map(f).filter(p) gives
\* [6,8,10] and filter(p).map(f) gives [].
C8_OrderMatters ==
    (SyncDone /\ source = OneToFive) =>
        /\ (operations = FilterThenMap) => returned = << <<6, 12>> >>
        /\ (operations = MapThenFilter) => returned = << <<6, 12>> >>
        /\ (operations = << Map("double"), Filter("gt5") >>)
               => returned = << <<6, 8, 10>> >>
        /\ (operations = << Filter("gt5"), Map("double") >>)
               => returned = << <<>> >>

C8_Witness ==
    /\ SyncDone
    /\ source = OneToFive
    /\ operations = MapThenFilter
    /\ returned = << <<6, 12>> >>

\* the arguments of the closure calls made by the operation at position i
ArgsOf(i) ==
    LET mine == SelectSeq(calls, LAMBDA c : c.op = i)
    IN  [k \in 1 .. Len(mine) |-> mine[k].arg]

\* C9: during await the closures are called in append order of their
\* operations; within a map_async / filter_async step the element futures
\* are created in the order of the step's input sequence, each only after
\* the one before has completed, so at most one element future is pending.
C9_OneAtATime ==
    (kind = "async") =>
        /\ Len(pending) <= 1
        /\ \A k \in 1 .. Len(calls) - 1 : calls[k].op <= calls[k + 1].op
        /\ (pc = "await") =>
               /\ pending = << calls[Len(calls)] >>
               /\ pending[1].op = opIdx
               /\ ArgsOf(opIdx) \o iter = result
               /\ Len(new_result) <= Len(ArgsOf(opIdx)) - 1
        /\ (pc = "done") => pending = <<>>

C9_Witness ==
    /\ kind = "async"
    /\ pc = "await"
    /\ Len(pending) = 1
    /\ opIdx = 2
    /\ Len(ArgsOf(2)) = 2
    /\ Len(ArgsOf(1)) = 5
    /\ iter # <<>>

\* the synchronous operation computing what an asynchronous one computes
ToSync(operation) ==
    CASE operation.tag = "MapAsync" -> Map(operation.f)
      [] operation.tag = "FilterAsync" -> Filter(operation.f)
      [] OTHER -> operation

SyncTwin == [k \in 1 .. Len(operations) |-> ToSync(operations[k])]

\* C10: an AsyncChain returns what the synchronous Chain with the same
\* source and the same steps, computing the same element-wise functions,
\* returns, and unwinds exactly when that one does.
C10_AsyncAsSync ==
    (kind = "async" /\ pc \in {"done", "panicked"}) =>
        LET twin == value_loop(source, SyncTwin, 1, <<>>)
        IN  /\ (pc = "panicked") = twin.panicked
            /\ (pc = "done") => returned = << twin.out >>

C10_Witness ==
    /\ AsyncDone
    /\ source = <<1, 2>>
    /\ operations = << MapAsync("double"), MapAsync("triple") >>
    /\ returned = << <<6, 12>> >>

\* the call c is one in which the mapper panics
Aborting(c) ==
    /\ operations[c.op].tag \in {"Map", "MapAsync"}
    /\ mapper_panics(operations[c.op].f, c.arg)

\* the sequence the operation at position i is applied to
InputOf(i) == AppliedInOrder(SubSeq(operations, 1, i - 1), source)

IsPrefix(s, t) == Len(s) <= Len(t) /\ s = SubSeq(t, 1, Len(s))

\* C11: a mapper that panics during value() / collect() unwinds to the
\* caller: the call ends panicked exactly when a closure call aborted,
\* nothing is returned, the aborting call is the last closure call made (no
\* later element, no later operation), and the calls of its step up to it
\* are the step's input in order.
C11_PanicPropagates ==
    (kind = "sync" /\ state = "Consumed") =>
        /\ (pc = "panicked") = (\E k \in 1 .. Len(calls) : Aborting(calls[k]))
        /\ (pc = "done") => Len(returned) = 1
        /\ (pc = "panicked") =>
               LET last == calls[Len(calls)]
               IN  /\ returned = <<>>
                   /\ Aborting(last)
                   /\ \A k \in 1 .. Len(calls) - 1 :
                          ~Aborting(calls[k]) /\ calls[k].op <= last.op
                   /\ IsPrefix(ArgsOf(last.op), InputOf(last.op))

C11_Witness ==
    /\ kind = "sync"
    /\ pc = "panicked"
    /\ source = <<1, 2>>
    /\ operations = << Map("recip"), Map("double") >>
    /\ calls = << Call(1, 1), Call(1, 2) >>
    /\ returned = <<>>

\* C12: the chain works on a copy: the caller's slice is what the chain
\* starts from and is never written, neither by a builder call nor by the
\* terminal call, whatever the operations.
C12_SourceUntouched ==
    /\ [](state = "Building" => data = source)
    /\ [][source' = source]_vars

C12_Witness ==
    /\ SyncDone
    /\ source = <<1, 2>>
    /\ operations = << Map("double"), Reverse >>
    /\ returned = << <<4, 2>> >>

\* the closure calls a completed terminal call has made for the operation at
\* position i: one per element of its input for a map / filter step, none for
\* take / skip / reverse
ProcessedOnce(i) ==
    ArgsOf(i) = IF operations[i].tag \in {"Map", "Filter", "MapAsync", "FilterAsync"}
                THEN InputOf(i) ELSE <<>>

\* what a suspended await still has to do: the operations from the current
\* one on, and within the current one the items not yet taken
Remaining == << Len(operations) + 1 - opIdx, Len(iter) >>

LexLess(a, b) == a[1] < b[1] \/ (a[1] = b[1] /\ a[2] < b[2])

\* C20: a terminal call whose closures and futures all return ends, returned
\* or unwound by a closure's panic: it is never left without a next step
\* before its end (value / collect end within the call, a suspended await has
\* exactly the future it waits for), every resumption ends it or strictly
\* reduces what remains to do, it never goes back to an earlier operation or
\* call, a call that returned has processed every appended operation once,
\* there is no other outcome, and nothing happens after the end.
C20_Terminates ==
    /\ [](state = "Consumed" =>
             \/ pc \in {"done", "panicked"}
             \/ kind = "async" /\ pc = "await" /\ Len(pending) = 1)
    /\ [](state = "Building" => pc = "build")
    /\ [](pc = "done" =>
             /\ \A i \in 1 .. Len(operations) : ProcessedOnce(i)
             /\ (kind = "async") => opIdx = Len(operations) + 1)
    /\ [][/\ opIdx' >= opIdx
          /\ IsPrefix(calls, calls')
          /\ (pc = "await") =>
                 \/ pc' \in {"done", "panicked"}
                 \/ pc' = "await" /\ LexLess(Remaining', Remaining)
          /\ (pc \in {"done", "panicked"}) => UNCHANGED chainVars]_vars

C20_Witness ==
    /\ AsyncDone
    /\ source = OneToTen
    /\ operations = << FilterAsync("even"), MapAsync("triple"), Take(3) >>
    /\ returned = << <<6, 12, 18>> >>
    /\ Len(calls) = 15


\* ------------------------------------------------- claims on free functions
\* operation applied to every item, in item order
MapOf(its, op) == [k \in 1 .. Len(its) |-> operation_call(op, its[k])]

\* finished holds every position 1 .. n once
IsPermutation(s, n) ==
    /\ Len(s) = n
    /\ \A k \in 1 .. n : \E j \in 1 .. n : s[j] = k

Identity(n) == [k \in 1 .. n |-> k]

ExecReturned(f) == fn = f /\ callPc = "returned"

\* C13: execute_with_concurrency called with a concurrency of 0 returns the
\* invalid-input error for every item list, the empty one included, and has
\* called the operation on no item.
C13_ZeroConcurrency ==
    (fn = "execute_with_concurrency" /\ count = 0) =>
        /\ callPc = "returned"
        /\ outcome = Err("InvalidInput")
        /\ invoked = 0
        /\ work = <<>>
        /\ finished = <<>>
        /\ results = <<>>

C13_Witness ==
    /\ ExecReturned("execute_with_concurrency")
    /\ items = <<1, 2, 3>>
    /\ count = 0
    /\ outcome.tag = "Err"
    /\ invoked = 0

\* C14: execute_with_concurrency with a concurrency of at least 1,
\* execute_parallel and execute_sequential return Ok with one result per
\* item, the i-th being the operation applied to the i-th item, whatever the
\* order in which the futures completed and whether or not the item count is
\* a multiple of the concurrency.
C14_ResultPerItem ==
    (/\ callPc = "returned"
     /\ fn \in {"execute_with_concurrency", "execute_parallel", "execute_sequential"}
     /\ ~(fn = "execute_with_concurrency" /\ count = 0)) =>
        /\ outcome = Ok(MapOf(items, closure))
        /\ Len(outcome.value) = Len(items)
        /\ invoked = Len(items)
        /\ IsPermutation(finished, Len(items))

C14_Witness ==
    /\ ExecReturned("execute_with_concurrency")
    /\ items = OneToEight
    /\ count = 3
    /\ closure = "double"
    /\ finished = <<3, 1, 2, 6, 5, 4, 8, 7>>
    /\ outcome = Ok(<<2, 4, 6, 8, 10, 12, 14, 16>>)

\* C18: the free functions map_async and filter_async start the futures of
\* all items together and return the results in the order of the input
\* items, whatever the order in which the futures completed.
C18_InputOrder ==
    /\ (fn \in {"map_async", "filter_async"} /\ callPc = "joining") =>
           invoked = Len(items) /\ Len(work) = Len(items)
    /\ ExecReturned("map_async") =>
           outcome = Value(MapOf(items, closure)) /\ IsPermutation(finished, Len(items))
    /\ ExecReturned("filter_async") =>
           outcome = Value(Kept(items, closure)) /\ IsPermutation(finished, Len(items))

C18_Witness ==
    /\ ExecReturned("filter_async")
    /\ items = <<1, 2, 3, 4, 5>>
    /\ closure = "even"
    /\ finished = <<5, 4, 3, 2, 1>>
    /\ outcome = Value(<<2, 4>>)


ParReturned(f) == fn = f /\ callPc = "returned"

\* C15 as stated: reduce_parallel returns what the sequential reduce returns
\* (the sum of <<1, 2, 3, 4, 5>> from 0 is 15, the empty slice gives the
\* initial value), however the slice is split.
C15_AsStated ==
    ParReturned("reduce_parallel") => outcome = Value(reduce(items, closure, count))

\* C16 as stated: find_parallel returns the first item satisfying the
\* predicate, as find does, under every scheduling, and None when there is
\* none.
C16_AsStated ==
    ParReturned("find_parallel") => outcome = Value(find(items, closure))

\* C17: map_parallel and filter_parallel return the elements the sequential
\* map and filter return, in the same order, however the slice is split and
\* in whatever order the pieces are finished.
C17_ParallelOrder ==
    /\ ParReturned("map_parallel") =>
           /\ outcome = Value(MapOf(items, closure))
           /\ invoked = Len(items)
           /\ IsPermutation(finished, Len(work))
    /\ ParReturned("filter_parallel") =>
           /\ outcome = Value(Kept(items, closure))
           /\ invoked = Len(items)
           /\ IsPermutation(finished, Len(work))

C17_Witness ==
    /\ ParReturned("map_parallel")
    /\ items = <<1, 2, 3, 4, 5>>
    /\ closure = "double"
    /\ Len(work) = 3
    /\ finished = <<3, 1, 2>>
    /\ outcome = Value(<<2, 4, 6, 8, 10>>)


\* C19 as stated: no public operation panics on edge-case input (an empty
\* collection, an index at or beyond the length, a sample count larger than
\* the length); each such call returns an empty result or None.
C19_AsStated ==
    /\ callPc # "panicked"
    /\ outcome.tag # "Panic"
    /\ (callPc = "returned" /\ fn \in {"get", "index", "index_mut"} /\ count >= Len(items)) =>
           outcome = Value(None)
    /\ (callPc = "returned" /\ fn = "sample" /\ items = <<>>) => outcome = Value(None)
    /\ (callPc = "returned" /\ fn = "sample_size") =>
           Len(outcome.value) = Min(count, Len(items))


\* the positions of the operations whose closures the calls belong to never
\* decrease along the log
StepByStep(log) == \A k \in 1 .. Len(log) - 1 : log[k].op <= log[k + 1].op

\* C25: value() is eager per step and not fused: every closure call of a
\* step comes before any closure call of a later step, and a map / filter
\* step calls its closure on every element of its input, in order, whatever
\* take follows it (up to the call in which a mapper panics).
C25_EagerPerStep ==
    (kind = "sync" /\ state = "Consumed") =>
        /\ StepByStep(calls)
        /\ \A i \in 1 .. Len(operations) :
               /\ IsPrefix(ArgsOf(i), InputOf(i))
               /\ (pc = "done" /\ operations[i].tag \in {"Map", "Filter"}) =>
                      ArgsOf(i) = InputOf(i)

C25_Witness ==
    /\ SyncDone
    /\ source = OneToTen
    /\ operations = << Filter("even"), Map("triple"), Take(3) >>
    /\ Len(ArgsOf(1)) = 10
    /\ ArgsOf(2) = <<2, 4, 6, 8, 10>>
    /\ returned = << <<6, 12, 18>> >>


\* ---------------------------------------- claims on grouping and sorting
Returned(f) == fn = f /\ callPc = "returned"

\* number of positions of s holding x
Occurrences(s, x) == Cardinality({ j \in 1 .. Len(s) : s[j] = x })

Rejected(s, predicate) == SelectSeq(s, LAMBDA x : ~Satisfies(predicate, x))

\* the keys the items of s generate, and the items generating the key k, in
\* the order of s
KeysOf(s, keyer) == { iteratee_call(keyer, s[j]) : j \in 1 .. Len(s) }

WithKey(s, keyer, k) == SelectSeq(s, LAMBDA x : iteratee_call(keyer, x) = k)

RECURSIVE SumOfSizes(_, _)
SumOfSizes(g, keys) ==
    IF keys = {} THEN 0
    ELSE LET k == CHOOSE any \in keys : TRUE
         IN  Len(g[k]) + SumOfSizes(g, keys \ {k})

\* C21: partition returns (truthy, falsy): the items satisfying the predicate
\* and the items not satisfying it, each in the order of the input; every
\* item is in exactly one of the two and the lengths add up to the length
\* of the input.
C21_Partition ==
    Returned("partition") =>
        LET truthy == outcome.value[1]
            falsy == outcome.value[2]
        IN  /\ truthy = Kept(items, closure)
            /\ falsy = Rejected(items, closure)
            /\ Len(truthy) + Len(falsy) = Len(items)
            /\ \A j \in 1 .. Len(items) :
                   /\ Occurrences(truthy, items[j]) + Occurrences(falsy, items[j])
                          = Occurrences(items, items[j])
                   /\ Occurrences(truthy, items[j]) = 0
                          \/ Occurrences(falsy, items[j]) = 0

C21_Witness ==
    /\ Returned("partition")
    /\ items = <<1, 2, 3, 4, 5>>
    /\ closure = "even"
    /\ outcome = Value(<< <<2, 4>>, <<1, 3, 5>> >>)

\* C22: group_by maps each key to the items generating it, in the order of
\* the input; there is one group per generated key, none is empty and the
\* sizes add up to the length of the input; count_by gives for each key the
\* size of its group.
C22_GroupBy ==
    /\ Returned("group_by") =>
           LET groups == outcome.value
               counts == count_by_loop(items, closure, EmptyMap)
           IN  /\ DOMAIN groups = KeysOf(items, closure)
               /\ \A k \in DOMAIN groups :
                      /\ groups[k] = WithKey(items, closure, k)
                      /\ groups[k] # <<>>
               /\ SumOfSizes(groups, DOMAIN groups) = Len(items)
               /\ DOMAIN counts = DOMAIN groups
               /\ \A k \in DOMAIN groups : counts[k] = Len(groups[k])
    /\ Returned("count_by") =>
           LET counts == outcome.value
           IN  /\ DOMAIN counts = KeysOf(items, closure)
               /\ \A k \in DOMAIN counts :
                      counts[k] = Len(WithKey(items, closure, k))

C22_Witness ==
    /\ Returned("group_by")
    /\ closure = "floor"
    /\ items = <<61, 42, 63>>
    /\ DOMAIN outcome.value = {4, 6}
    /\ outcome.value[6] = <<61, 63>>
    /\ outcome.value[4] = <<42>>

\* the last position of s whose item generates the key k
LastWithKey(s, keyer, k) ==
    CHOOSE j \in 1 .. Len(s) :
        /\ iteratee_call(keyer, s[j]) = k
        /\ \A later \in j + 1 .. Len(s) : iteratee_call(keyer, s[later]) # k

\* C23: key_by maps each key to the last item of the input generating it,
\* with one entry per distinct key.
C23_KeyBy ==
    Returned("key_by") =>
        LET keyed == outcome.value
        IN  /\ DOMAIN keyed = KeysOf(items, closure)
            /\ \A k \in DOMAIN keyed :
                   keyed[k] = items[LastWithKey(items, closure, k)]

C23_Witness ==
    /\ Returned("key_by")
    /\ closure = "name"
    /\ items = << User("bob", 35), User("bob", 30) >>
    /\ DOMAIN outcome.value = {"bob"}
    /\ outcome.value["bob"] = User("bob", 30)

\* out holds the items of s in the order of the positions by, sorted by key
\* in the direction given, items of equal key in the order of their
\* positions in s
StablySortedBy(out, s, keyer, ascending, by) ==
    /\ \A k \in 1 .. Len(s) : out[k] = s[by[k]]
    /\ \A k \in 1 .. Len(s) - 1 :
           LET here == iteratee_call(keyer, out[k])
               next == iteratee_call(keyer, out[k + 1])
           IN  /\ IF ascending THEN here <= next ELSE here >= next
               /\ here = next => by[k] < by[k + 1]

\* C24: sort_by and order_by return a permutation of the input sorted by
\* key, ascending for sort_by and order_by(true), descending for
\* order_by(false), and items of equal key keep their relative order in
\* both directions.
C24_StableSort ==
    (callPc = "returned" /\ fn \in {"sort_by", "order_by"}) =>
        LET ascending == IF fn = "sort_by" THEN TRUE ELSE count
            sorted == outcome.value
        IN  /\ Len(sorted) = Len(items)
            /\ \E by \in Permutations(1 .. Len(items)) :
                   StablySortedBy(sorted, items, closure, ascending, by)

C24_Witness ==
    /\ Returned("order_by")
    /\ closure = "age"
    /\ count = FALSE
    /\ items = DocUsers
    /\ outcome = Value(<< User("john", 30), User("bob", 30), User("jane", 25) >>)

====
